---- MODULE Spec2Model ----
(***************************************************************************)
(* Model of src/main.cpp: a matrix engine (addMatrices, multiplyMatrices,  *)
(* sumDiagonals, swapRows, swapCols, updateElement) and the reference run  *)
(* of main() over two N x N matrices loaded from a file.                   *)
(*                                                                         *)
(* A Matrix (std::vector<std::vector<int>>) is a sequence of rows, each a  *)
(* sequence of integers.  TLA+ sequences are 1-based; every index that an  *)
(* operation takes or prints is the source's 0-based int, converted at the *)
(* point of access (At, and the +1 in the EXCEPTs).                        *)
(*                                                                         *)
(* Three specifications share the variables:                               *)
(*   Spec      addMatrices / multiplyMatrices / sumDiagonals applied to a  *)
(*             pair of operands drawn from a bounded family;               *)
(*   SpecMut   the in-place mutators applied, up to twice in a row, to a   *)
(*             matrix drawn from the same family;                          *)
(*   SpecMain  main(), statement by statement (FairSpecMain adds the       *)
(*             fairness of a sequential program that keeps running).       *)
(*                                                                         *)
(* Element values stay far below the 32-bit limits of int, so no           *)
(* arithmetic of the model overflows.                                      *)
(***************************************************************************)
EXTENDS Integers, Sequences, FiniteSets

VARIABLES
    matrixA,              \* main: Matrix matrixA; the first operand
    matrixB,              \* main: Matrix matrixB; the second operand
    n,                    \* main: int n, the size read by loadMatrices
    pc,                   \* position in main(), or the phase of an engine run
    exitCode,             \* <<>> while running, <<c>> once main returned c
    sumMatrix,            \* main: <<>> before its construction, then <<C>>
    productMatrix,        \* main: <<>> before its construction, then <<C>>
    matrixA_copy_rows,    \* main: <<>> before its construction, then <<M>>
    matrixB_copy_cols,    \* main: <<>> before its construction, then <<M>>
    matrixA_copy_update,  \* main: <<>> before its construction, then <<M>>
    matrix,               \* the Matrix& argument of the in-place mutators
    history,              \* the mutator calls made on it, each with the
                          \* value it had when the call began
    call,                 \* the last engine call: its name and int arguments
    ret,                  \* what the last call returned: <<>> or <<C>>
    status,               \* how the last call ended: "ok", "runtime_error", "crash"
    oob,                  \* TRUE iff the last call indexed a vector out of range
    sums,                 \* the two sums sumDiagonals printed: <<>> or <<rec>>
    cerr                  \* diagnostics written to std::cerr

vars == <<matrixA, matrixB, n, pc, exitCode, sumMatrix, productMatrix,
          matrixA_copy_rows, matrixB_copy_cols, matrixA_copy_update,
          matrix, history, call, ret, status, oob, sums, cerr>>

mainVars == <<n, exitCode, sumMatrix, productMatrix,
              matrixA_copy_rows, matrixB_copy_cols, matrixA_copy_update>>

(***************************************************************************)
(* Bounds of the model and the family of input matrices.                   *)
(***************************************************************************)
MaxDim == 3

NumStarts == 2

Dims == 0..MaxDim

\* First elements of the input matrices: -1, 0, ...
Starts == (0 - 1)..(NumStarts - 2)

\* Indices handed to the mutators: one below the range, the range, and the
\* first index above the largest height or width.
Idx == (0 - 1)..MaxDim

\* Values standing for whatever an out-of-range read of heap memory yields:
\* an abstraction of "any int", one value per call for all such reads.
Garbage == {0, 0 - 7}

\* The h x w matrix whose element at row-major position t = i*w + j (0-based)
\* is start + t*t: rows, columns and the two diagonals all differ.
Fill(h, w, start) ==
    [i \in 1..h |->
        [j \in 1..w |-> start + ((i - 1) * w + (j - 1)) * ((i - 1) * w + (j - 1))]]

\* The input matrices: rectangular (all rows of one length), the empty matrix
\* and matrices of empty rows included.  Rows of unequal length are not drawn.
Matrices == {Fill(h, w, s) : h \in Dims, w \in Dims, s \in Starts}

\* Matrix(n, std::vector<int>(m, 0))
Zeros(h, w) == [i \in 1..h |-> [j \in 1..w |-> 0]]

(***************************************************************************)
(* Vector access.                                                          *)
(***************************************************************************)
\* matrix.size()
Height(M) == Len(M)

\* matrix[0].size(); the caller has checked that matrix[0] exists
Width(M) == Len(M[1])

\* whether matrix[i][j] (0-based) names an element
InRange(M, i, j) ==
    /\ i >= 0
    /\ i < Len(M)
    /\ j >= 0
    /\ j < Len(M[i + 1])

\* matrix[i][j] (0-based)
At(M, i, j) == M[i + 1][j + 1]

NoCall == [op |-> "none", a |-> 0, b |-> 0, v |-> 0]

\* one line written to std::cerr: its text and the numbers printed in it
Diagnostic(text, numbers) == [msg |-> text, args |-> numbers]

(***************************************************************************)
(* addMatrices                                                             *)
(***************************************************************************)
\* a check that forgets the widths
addThrowsHeightsOnly(A, B) ==
    \/ Height(A) = 0
    \/ Height(A) # Height(B)

addThrows(A, B) ==
    \/ Height(A) = 0
    \/ Height(A) # Height(B)
    \/ Width(A) # Width(B)

\* the reads of result[i][j] = matrixA[i][j] + matrixB[i][j] stay in range
addCellOk(A, B, i, j) == InRange(A, i, j) /\ InRange(B, i, j)

\* some read of the double loop over 0..n-1 x 0..n-1 leaves a row
addOob(A, B) ==
    \E i \in 0..(Height(A) - 1), j \in 0..(Height(A) - 1) : ~addCellOk(A, B, i, j)

\* the n x n result, n = matrixA.size(); g stands in for every element read
\* out of range
addResult(A, B, g) ==
    [i \in 1..Height(A) |->
        [j \in 1..Height(A) |->
            IF addCellOk(A, B, i - 1, j - 1)
            THEN At(A, i - 1, j - 1) + At(B, i - 1, j - 1)
            ELSE g]]

\* every way a call can end
addMatrices(A, B) ==
    IF addThrows(A, B)
    THEN {[status |-> "runtime_error", ret |-> <<>>, oob |-> FALSE]}
    ELSE IF addOob(A, B)
    THEN {[status |-> "crash", ret |-> <<>>, oob |-> TRUE]}
         \cup {[status |-> "ok", ret |-> <<addResult(A, B, g)>>, oob |-> TRUE] :
                  g \in Garbage}
    ELSE {[status |-> "ok", ret |-> <<addResult(A, B, 0)>>, oob |-> FALSE]}

(***************************************************************************)
(* multiplyMatrices                                                        *)
(***************************************************************************)
\* a check that compares the two heights instead of A's width with B's height
multiplyThrowsRows(A, B) ==
    \/ Height(A) = 0
    \/ Height(A) # Height(B)

multiplyThrows(A, B) ==
    \/ Height(A) = 0
    \/ Width(A) # Height(B)

mulTermOk(A, B, i, j, k) == InRange(A, i, k) /\ InRange(B, k, j)

\* an innermost loop that assigns (=) where the source accumulates (+=)
mulAccAssign(A, B, i, j, k, g) ==
    IF k = 0
    THEN 0
    ELSE IF mulTermOk(A, B, i, j, k - 1)
         THEN At(A, i, k - 1) * At(B, k - 1, j)
         ELSE g

\* result[i][j] after the first k rounds of the innermost loop, from 0
RECURSIVE mulAcc(_, _, _, _, _, _)
mulAcc(A, B, i, j, k, g) ==
    IF k = 0
    THEN 0
    ELSE mulAcc(A, B, i, j, k - 1, g)
         + (IF mulTermOk(A, B, i, j, k - 1)
            THEN At(A, i, k - 1) * At(B, k - 1, j)
            ELSE g)

\* the n x m result after the loops, with m columns and p rounds
mulResult(A, B, m, p, g) ==
    [i \in 1..Height(A) |-> [j \in 1..m |-> mulAcc(A, B, i - 1, j - 1, p, g)]]

\* some read of the triple loop leaves a row or the matrix
mulLoopOob(A, B, m, p) ==
    \E i \in 0..(Height(A) - 1), j \in 0..(m - 1), k \in 0..(p - 1) :
        ~mulTermOk(A, B, i, j, k)

multiplyMatrices(A, B) ==
    IF multiplyThrows(A, B)
    THEN {[status |-> "runtime_error", ret |-> <<>>, oob |-> FALSE]}
    ELSE IF Height(B) = 0
    THEN \* int m = matrixB[0].size() reads a row that does not exist: the
         \* run dies there or goes on with whatever m it read; p = 0
         {[status |-> "crash", ret |-> <<>>, oob |-> TRUE]}
         \cup {[status |-> "ok", ret |-> <<Zeros(Height(A), m)>>, oob |-> TRUE] :
                  m \in Dims}
    ELSE IF mulLoopOob(A, B, Width(B), Height(B))
    THEN {[status |-> "crash", ret |-> <<>>, oob |-> TRUE]}
         \cup {[status |-> "ok",
                ret |-> <<mulResult(A, B, Width(B), Height(B), g)>>,
                oob |-> TRUE] : g \in Garbage}
    ELSE {[status |-> "ok",
           ret |-> <<mulResult(A, B, Width(B), Height(B), 0)>>,
           oob |-> FALSE]}

(***************************************************************************)
(* sumDiagonals                                                            *)
(***************************************************************************)
diagRejects(M) ==
    \/ Height(M) = 0
    \/ Height(M) # Width(M)

\* mainDiagonalSum after the first k rounds of the loop
RECURSIVE mainDiagonalSum(_, _)
mainDiagonalSum(M, k) ==
    IF k = 0 THEN 0 ELSE mainDiagonalSum(M, k - 1) + At(M, k - 1, k - 1)

\* a second accumulator that walks the main diagonal again
secondaryAsMain(M, k) == mainDiagonalSum(M, k)

\* secondaryDiagonalSum after the first k rounds of the loop
RECURSIVE secondaryDiagonalSum(_, _)
secondaryDiagonalSum(M, k) ==
    IF k = 0
    THEN 0
    ELSE secondaryDiagonalSum(M, k - 1) + At(M, k - 1, Height(M) - 1 - (k - 1))

\* rounds of the loop: i = 0 .. n-1
diagRounds(M) == Height(M)

sumDiagonals(M) ==
    IF diagRejects(M)
    THEN [sums |-> <<>>,
          cerr |-> <<Diagnostic("Error: Matrix must be square to calculate diagonals",
                                <<>>)>>]
    ELSE [sums |-> <<[main |-> mainDiagonalSum(M, diagRounds(M)),
                      secondary |-> secondaryDiagonalSum(M, diagRounds(M))]>>,
          cerr |-> <<>>]

(***************************************************************************)
(* Spec: the arithmetic of the engine on a pair of operands.               *)
(***************************************************************************)
Init ==
    /\ matrixA \in Matrices
    /\ matrixB \in Matrices
    /\ n = 0
    /\ pc = "engine"
    /\ exitCode = <<>>
    /\ sumMatrix = <<>>
    /\ productMatrix = <<>>
    /\ matrixA_copy_rows = <<>>
    /\ matrixB_copy_cols = <<>>
    /\ matrixA_copy_update = <<>>
    /\ matrix = <<>>
    /\ history = <<>>
    /\ call = NoCall
    /\ ret = <<>>
    /\ status = "ok"
    /\ oob = FALSE
    /\ sums = <<>>
    /\ cerr = <<>>

Add ==
    /\ pc = "engine"
    /\ \E o \in addMatrices(matrixA, matrixB) :
          /\ ret' = o.ret
          /\ status' = o.status
          /\ oob' = o.oob
    /\ call' = [NoCall EXCEPT !.op = "addMatrices"]
    /\ sums' = <<>>
    /\ cerr' = <<>>
    /\ UNCHANGED <<matrixA, matrixB, pc, matrix, history>>
    /\ UNCHANGED mainVars

Multiply ==
    /\ pc = "engine"
    /\ \E o \in multiplyMatrices(matrixA, matrixB) :
          /\ ret' = o.ret
          /\ status' = o.status
          /\ oob' = o.oob
    /\ call' = [NoCall EXCEPT !.op = "multiplyMatrices"]
    /\ sums' = <<>>
    /\ cerr' = <<>>
    /\ UNCHANGED <<matrixA, matrixB, pc, matrix, history>>
    /\ UNCHANGED mainVars

SumDiagonals ==
    /\ pc = "engine"
    /\ sums' = sumDiagonals(matrixA).sums
    /\ cerr' = sumDiagonals(matrixA).cerr
    /\ call' = [NoCall EXCEPT !.op = "sumDiagonals"]
    /\ ret' = <<>>
    /\ status' = "ok"
    /\ oob' = FALSE
    /\ UNCHANGED <<matrixA, matrixB, pc, matrix, history>>
    /\ UNCHANGED mainVars

Next == Add \/ Multiply \/ SumDiagonals

Spec == Init /\ [][Next]_vars

(***************************************************************************)
(* swapRows, swapCols, updateElement: the matrix after the call and what   *)
(* the call wrote to std::cerr.                                            *)
(***************************************************************************)
\* a version that returns on row1 == row2 before it validates the indices
swapRowsSameFirst(M, row1, row2) ==
    IF Height(M) = 0
    THEN [matrix |-> M,
          cerr |-> <<Diagnostic("Error: Cannot swap rows in an empty matrix", <<>>)>>]
    ELSE IF row1 = row2
    THEN [matrix |-> M, cerr |-> <<>>]
    ELSE IF row1 < 0 \/ row1 >= Height(M) \/ row2 < 0 \/ row2 >= Height(M)
    THEN [matrix |-> M,
          cerr |-> <<Diagnostic("Error: Row index out of bounds",
                                <<row1, row2, Height(M) - 1>>)>>]
    ELSE [matrix |-> [M EXCEPT ![row1 + 1] = M[row2 + 1], ![row2 + 1] = M[row1 + 1]],
          cerr |-> <<>>]

\* a version that copies row2 over row1 and row1 over row2 without a temporary
swapRowsNoTemp(M, row1, row2) ==
    IF Height(M) = 0
    THEN [matrix |-> M,
          cerr |-> <<Diagnostic("Error: Cannot swap rows in an empty matrix", <<>>)>>]
    ELSE IF row1 < 0 \/ row1 >= Height(M) \/ row2 < 0 \/ row2 >= Height(M)
    THEN [matrix |-> M,
          cerr |-> <<Diagnostic("Error: Row index out of bounds",
                                <<row1, row2, Height(M) - 1>>)>>]
    ELSE IF row1 = row2
    THEN [matrix |-> M, cerr |-> <<>>]
    ELSE [matrix |-> [M EXCEPT ![row1 + 1] = M[row2 + 1], ![row2 + 1] = M[row2 + 1]],
          cerr |-> <<>>]

swapRows(M, row1, row2) ==
    IF Height(M) = 0
    THEN [matrix |-> M,
          cerr |-> <<Diagnostic("Error: Cannot swap rows in an empty matrix", <<>>)>>]
    ELSE IF row1 < 0 \/ row1 >= Height(M) \/ row2 < 0 \/ row2 >= Height(M)
    THEN [matrix |-> M,
          cerr |-> <<Diagnostic("Error: Row index out of bounds",
                                <<row1, row2, Height(M) - 1>>)>>]
    ELSE IF row1 = row2
    THEN [matrix |-> M, cerr |-> <<>>]
    ELSE \* std::swap(matrix[row1], matrix[row2])
         [matrix |-> [M EXCEPT ![row1 + 1] = M[row2 + 1], ![row2 + 1] = M[row1 + 1]],
          cerr |-> <<>>]

\* std::swap(matrix[i][col1], matrix[i][col2]) for the 0-based row i
swapInRow(M, i, col1, col2) ==
    [M[i + 1] EXCEPT ![col1 + 1] = At(M, i, col2), ![col2 + 1] = At(M, i, col1)]

\* the matrix after the first k rounds of the loop over the rows
RECURSIVE swapColsLoop(_, _, _, _)
swapColsLoop(M, col1, col2, k) ==
    IF k = 0
    THEN M
    ELSE LET done == swapColsLoop(M, col1, col2, k - 1)
         IN  [done EXCEPT ![k] = swapInRow(done, k - 1, col1, col2)]

swapCols(M, col1, col2) ==
    IF Height(M) = 0 \/ Width(M) = 0
    THEN [matrix |-> M,
          cerr |-> <<Diagnostic("Error: Cannot swap columns in an empty matrix", <<>>)>>]
    ELSE IF col1 < 0 \/ col1 >= Width(M) \/ col2 < 0 \/ col2 >= Width(M)
    THEN [matrix |-> M,
          cerr |-> <<Diagnostic("Error: Column index out of bounds",
                                <<col1, col2, Width(M) - 1>>)>>]
    ELSE IF col1 = col2
    THEN [matrix |-> M, cerr |-> <<>>]
    ELSE [matrix |-> swapColsLoop(M, col1, col2, Height(M)), cerr |-> <<>>]

\* a version that adds the new value to the element (+= for =)
updateElementAdd(M, row, col, newValue) ==
    IF Height(M) = 0 \/ Width(M) = 0
    THEN [matrix |-> M,
          cerr |-> <<Diagnostic("Error: Cannot update element in an empty matrix", <<>>)>>]
    ELSE IF row < 0 \/ row >= Height(M) \/ col < 0 \/ col >= Width(M)
    THEN [matrix |-> M,
          cerr |-> <<Diagnostic("Error: Index out of bounds",
                                <<row, col, Height(M) - 1, Width(M) - 1>>)>>]
    ELSE [matrix |-> [M EXCEPT ![row + 1][col + 1] = At(M, row, col) + newValue],
          cerr |-> <<>>]

updateElement(M, row, col, newValue) ==
    IF Height(M) = 0 \/ Width(M) = 0
    THEN [matrix |-> M,
          cerr |-> <<Diagnostic("Error: Cannot update element in an empty matrix", <<>>)>>]
    ELSE IF row < 0 \/ row >= Height(M) \/ col < 0 \/ col >= Width(M)
    THEN [matrix |-> M,
          cerr |-> <<Diagnostic("Error: Index out of bounds",
                                <<row, col, Height(M) - 1, Width(M) - 1>>)>>]
    ELSE [matrix |-> [M EXCEPT ![row + 1][col + 1] = newValue], cerr |-> <<>>]

(***************************************************************************)
(* SpecMut: the mutators applied in place to one matrix; a run is followed *)
(* for two calls, which is what "a swap, then the swap back" needs.        *)
(***************************************************************************)
\* the value main() writes, and a second one
NewValue == 99

NewValues == {NewValue, 0 - 1}

InitMut ==
    /\ matrix \in Matrices
    /\ matrixA = <<>>
    /\ matrixB = <<>>
    /\ n = 0
    /\ pc = "engine"
    /\ exitCode = <<>>
    /\ sumMatrix = <<>>
    /\ productMatrix = <<>>
    /\ matrixA_copy_rows = <<>>
    /\ matrixB_copy_cols = <<>>
    /\ matrixA_copy_update = <<>>
    /\ history = <<>>
    /\ call = NoCall
    /\ ret = <<>>
    /\ status = "ok"
    /\ oob = FALSE
    /\ sums = <<>>
    /\ cerr = <<>>

\* what a mutator call leaves behind, given its record c and its outcome o
Mutated(c, o) ==
    /\ matrix' = o.matrix
    /\ cerr' = o.cerr
    /\ call' = c
    /\ history' = Append(history, [call |-> c, before |-> matrix])

SwapRows ==
    /\ Len(history) < 2
    /\ \E row1 \in Idx, row2 \in Idx :
          Mutated([op |-> "swapRows", a |-> row1, b |-> row2, v |-> 0],
                  swapRows(matrix, row1, row2))
    /\ UNCHANGED <<matrixA, matrixB, pc, ret, status, oob, sums>>
    /\ UNCHANGED mainVars

SwapCols ==
    /\ Len(history) < 2
    /\ \E col1 \in Idx, col2 \in Idx :
          Mutated([op |-> "swapCols", a |-> col1, b |-> col2, v |-> 0],
                  swapCols(matrix, col1, col2))
    /\ UNCHANGED <<matrixA, matrixB, pc, ret, status, oob, sums>>
    /\ UNCHANGED mainVars

UpdateElement ==
    /\ Len(history) < 2
    /\ \E row \in Idx, col \in Idx, newValue \in NewValues :
          Mutated([op |-> "updateElement", a |-> row, b |-> col, v |-> newValue],
                  updateElement(matrix, row, col, newValue))
    /\ UNCHANGED <<matrixA, matrixB, pc, ret, status, oob, sums>>
    /\ UNCHANGED mainVars

NextMut == SwapRows \/ SwapCols \/ UpdateElement

SpecMut == InitMut /\ [][NextMut]_vars

(***************************************************************************)
(* loadMatrices.  A file is whether it opens, its size token (<<>> when    *)
(* the token is missing or is no integer) and the integer tokens after it. *)
(***************************************************************************)
RECURSIVE Flatten(_)
Flatten(M) == IF M = <<>> THEN <<>> ELSE Head(M) \o Flatten(Tail(M))

\* the first c tokens of a file that lists two k x k matrices
Tokens(k, startA, startB, c) ==
    SubSeq(Flatten(Fill(k, k, startA)) \o Flatten(Fill(k, k, startB)), 1, c)

Files ==
    {[open |-> FALSE, size |-> <<>>, tokens |-> <<>>]}
    \cup {[open |-> TRUE, size |-> sz, tokens |-> <<>>] :
             sz \in {<<>>, <<0 - 1>>, <<0>>}}
    \cup UNION {{[open |-> TRUE, size |-> <<k>>, tokens |-> Tokens(k, sa, sb, c)] :
                    sa \in Starts, sb \in Starts, c \in 0..(2 * k * k)} :
                k \in 1..MaxDim}

\* a k x k matrix of zeros (resize) into which the tokens from position
\* offset + 1 on were read, as far as they go
ReadInto(k, tokens, offset) ==
    [i \in 1..k |->
        [j \in 1..k |->
            IF offset + (i - 1) * k + j <= Len(tokens)
            THEN tokens[offset + (i - 1) * k + j]
            ELSE 0]]

\* the return value, the matrices and n after the call, and the diagnostic;
\* the matrices passed in are empty, as in main()
loadMatrices(file) ==
    IF ~file.open
    THEN [ok |-> FALSE, matrixA |-> <<>>, matrixB |-> <<>>, n |-> 0,
          cerr |-> <<Diagnostic("Error: Could not open file", <<>>)>>]
    ELSE IF file.size = <<>> \/ file.size[1] <= 0
    THEN [ok |-> FALSE, matrixA |-> <<>>, matrixB |-> <<>>,
          n |-> IF file.size = <<>> THEN 0 ELSE file.size[1],
          cerr |-> <<Diagnostic("Error: Invalid or missing matrix size N in file",
                                <<>>)>>]
    ELSE LET k == file.size[1]
             have == Len(file.tokens)
         IN  IF have < k * k
             THEN [ok |-> FALSE,
                   matrixA |-> ReadInto(k, file.tokens, 0),
                   matrixB |-> Zeros(k, k),
                   n |-> k,
                   cerr |-> <<Diagnostic("Error: Failed to read element for Matrix A",
                                         <<have \div k, have % k>>)>>]
             ELSE IF have < 2 * k * k
             THEN [ok |-> FALSE,
                   matrixA |-> ReadInto(k, file.tokens, 0),
                   matrixB |-> ReadInto(k, file.tokens, k * k),
                   n |-> k,
                   cerr |-> <<Diagnostic("Error: Failed to read element for Matrix B",
                                         <<(have - k * k) \div k, (have - k * k) % k>>)>>]
             ELSE [ok |-> TRUE,
                   matrixA |-> ReadInto(k, file.tokens, 0),
                   matrixB |-> ReadInto(k, file.tokens, k * k),
                   n |-> k,
                   cerr |-> <<>>]

(***************************************************************************)
(* SpecMain: main().  pc names the statement about to run; printMatrix     *)
(* only writes to std::cout and is left out.  An exception that leaves     *)
(* addMatrices or multiplyMatrices is caught nowhere, and a crash is a     *)
(* crash: both end the run at "terminated" without an exit code.           *)
(***************************************************************************)
InitMain ==
    /\ pc = "load"
    /\ matrixA = <<>>
    /\ matrixB = <<>>
    /\ n = 0
    /\ exitCode = <<>>
    /\ sumMatrix = <<>>
    /\ productMatrix = <<>>
    /\ matrixA_copy_rows = <<>>
    /\ matrixB_copy_cols = <<>>
    /\ matrixA_copy_update = <<>>
    /\ matrix = <<>>
    /\ history = <<>>
    /\ call = NoCall
    /\ ret = <<>>
    /\ status = "ok"
    /\ oob = FALSE
    /\ sums = <<>>
    /\ cerr = <<>>

\* lines 32-36
MainLoad ==
    /\ pc = "load"
    /\ \E file \in Files :
          LET o == loadMatrices(file)
          IN  /\ matrixA' = o.matrixA
              /\ matrixB' = o.matrixB
              /\ n' = o.n
              /\ IF o.ok
                 THEN /\ cerr' = o.cerr
                      /\ pc' = "add"
                      /\ exitCode' = <<>>
                 ELSE /\ cerr' = o.cerr
                                 \o <<Diagnostic("Error loading matrices from file", <<>>)>>
                      /\ pc' = "done"
                      /\ exitCode' = <<1>>
    /\ call' = [NoCall EXCEPT !.op = "loadMatrices"]
    /\ UNCHANGED <<sumMatrix, productMatrix, matrixA_copy_rows, matrixB_copy_cols,
                   matrixA_copy_update, matrix, history, ret, status, oob, sums>>

\* line 43
MainAdd ==
    /\ pc = "add"
    /\ \E o \in addMatrices(matrixA, matrixB) :
          /\ ret' = o.ret
          /\ status' = o.status
          /\ oob' = o.oob
          /\ sumMatrix' = o.ret
          /\ pc' = IF o.status = "ok" THEN "multiply" ELSE "terminated"
    /\ call' = [NoCall EXCEPT !.op = "addMatrices"]
    /\ UNCHANGED <<matrixA, matrixB, n, exitCode, productMatrix, matrixA_copy_rows,
                   matrixB_copy_cols, matrixA_copy_update, matrix, history, sums,
                   cerr>>

\* line 47
MainMultiply ==
    /\ pc = "multiply"
    /\ \E o \in multiplyMatrices(matrixA, matrixB) :
          /\ ret' = o.ret
          /\ status' = o.status
          /\ oob' = o.oob
          /\ productMatrix' = o.ret
          /\ pc' = IF o.status = "ok" THEN "diagonals" ELSE "terminated"
    /\ call' = [NoCall EXCEPT !.op = "multiplyMatrices"]
    /\ UNCHANGED <<matrixA, matrixB, n, exitCode, sumMatrix, matrixA_copy_rows,
                   matrixB_copy_cols, matrixA_copy_update, matrix, history, sums,
                   cerr>>

\* line 51
MainSumDiagonals ==
    /\ pc = "diagonals"
    /\ sums' = sumDiagonals(matrixA).sums
    /\ cerr' = cerr \o sumDiagonals(matrixA).cerr
    /\ call' = [NoCall EXCEPT !.op = "sumDiagonals"]
    /\ pc' = "swapRows"
    /\ UNCHANGED <<matrixA, matrixB, n, exitCode, sumMatrix, productMatrix,
                   matrixA_copy_rows, matrixB_copy_cols, matrixA_copy_update,
                   matrix, history, ret, status, oob>>

\* a row swap made on matrixA itself, the copy taken afterwards
MainSwapRowsInPlace ==
    /\ pc = "swapRows"
    /\ matrixA' = swapRows(matrixA, 0, 1).matrix
    /\ matrixA_copy_rows' = <<swapRows(matrixA, 0, 1).matrix>>
    /\ cerr' = cerr \o swapRows(matrixA, 0, 1).cerr
    /\ call' = [op |-> "swapRows", a |-> 0, b |-> 1, v |-> 0]
    /\ pc' = "swapCols"
    /\ UNCHANGED <<matrixB, n, exitCode, sumMatrix, productMatrix,
                   matrixB_copy_cols, matrixA_copy_update, matrix, history, ret,
                   status, oob, sums>>

\* lines 55-56: Matrix matrixA_copy_rows = matrixA; swapRows(matrixA_copy_rows, 0, 1)
MainSwapRows ==
    /\ pc = "swapRows"
    /\ matrixA_copy_rows' = <<swapRows(matrixA, 0, 1).matrix>>
    /\ cerr' = cerr \o swapRows(matrixA, 0, 1).cerr
    /\ call' = [op |-> "swapRows", a |-> 0, b |-> 1, v |-> 0]
    /\ pc' = "swapCols"
    /\ UNCHANGED <<matrixA, matrixB, n, exitCode, sumMatrix, productMatrix,
                   matrixB_copy_cols, matrixA_copy_update, matrix, history, ret,
                   status, oob, sums>>

\* lines 60-61: Matrix matrixB_copy_cols = matrixB; swapCols(matrixB_copy_cols, 1, 2)
MainSwapCols ==
    /\ pc = "swapCols"
    /\ matrixB_copy_cols' = <<swapCols(matrixB, 1, 2).matrix>>
    /\ cerr' = cerr \o swapCols(matrixB, 1, 2).cerr
    /\ call' = [op |-> "swapCols", a |-> 1, b |-> 2, v |-> 0]
    /\ pc' = "update"
    /\ UNCHANGED <<matrixA, matrixB, n, exitCode, sumMatrix, productMatrix,
                   matrixA_copy_rows, matrixA_copy_update, matrix, history, ret,
                   status, oob, sums>>

\* lines 65-69: Matrix matrixA_copy_update = matrixA;
\* updateElement(matrixA_copy_update, 2, 2, 99); return 0
MainUpdateElement ==
    /\ pc = "update"
    /\ matrixA_copy_update' = <<updateElement(matrixA, 2, 2, NewValue).matrix>>
    /\ cerr' = cerr \o updateElement(matrixA, 2, 2, NewValue).cerr
    /\ call' = [op |-> "updateElement", a |-> 2, b |-> 2, v |-> NewValue]
    /\ pc' = "done"
    /\ exitCode' = <<0>>
    /\ UNCHANGED <<matrixA, matrixB, n, sumMatrix, productMatrix,
                   matrixA_copy_rows, matrixB_copy_cols, matrix, history, ret,
                   status, oob, sums>>

NextMain ==
    \/ MainLoad
    \/ MainAdd
    \/ MainMultiply
    \/ MainSumDiagonals
    \/ MainSwapRows
    \/ MainSwapCols
    \/ MainUpdateElement

SpecMain == InitMain /\ [][NextMain]_vars

\* a sequential program takes its next step as long as it has one
FairSpecMain == SpecMain /\ WF_vars(NextMain)

(***************************************************************************)
(* What the claims compare the engine with.                                *)
(***************************************************************************)
\* the sum of f over the finite set S of its domain
RECURSIVE SumOver(_, _)
SumOver(f, S) ==
    IF S = {}
    THEN 0
    ELSE LET x == CHOOSE y \in S : TRUE
         IN  f[x] + SumOver(f, S \ {x})

\* all rows of M have the width of the first, and there is an element
NonEmptyRect(M) ==
    /\ Len(M) >= 1
    /\ Len(M[1]) >= 1
    /\ \A i \in 1..Len(M) : Len(M[i]) = Len(M[1])

SameShape(A, B) ==
    /\ Len(A) = Len(B)
    /\ \A i \in 1..Len(A) : Len(A[i]) = Len(B[i])

ElementwiseSum(A, B) ==
    [i \in 1..Len(A) |-> [j \in 1..Len(A[1]) |-> A[i][j] + B[i][j]]]

MatrixProduct(A, B) ==
    [i \in 1..Len(A) |->
        [j \in 1..Len(B[1]) |->
            SumOver([k \in 1..Len(B) |-> A[i][k] * B[k][j]], 1..Len(B))]]

MainDiagonal(M) == SumOver([i \in 1..Len(M) |-> M[i][i]], 1..Len(M))

SecondaryDiagonal(M) ==
    SumOver([i \in 1..Len(M) |-> M[i][Len(M) + 1 - i]], 1..Len(M))

(***************************************************************************)
(* Claims about addMatrices, multiplyMatrices and sumDiagonals (Spec).     *)
(***************************************************************************)
\* C1: for non-empty rectangular A and B of one shape h x w, square or not,
\* addMatrices returns the h x w matrix of the element-wise sums and leaves
\* A and B as they were.
C1_AddElementwise ==
    [][(/\ call'.op = "addMatrices"
        /\ NonEmptyRect(matrixA)
        /\ NonEmptyRect(matrixB)
        /\ SameShape(matrixA, matrixB))
       => (/\ status' = "ok"
           /\ ret' = <<ElementwiseSum(matrixA, matrixB)>>
           /\ matrixA' = matrixA
           /\ matrixB' = matrixB)]_vars

\* C2: for A of size n x m and B of size m x p with n, m, p >= 1,
\* multiplyMatrices returns the n x p matrix of the sums over k of
\* A[i][k] * B[k][j], each accumulated from zero.
C2_MultiplyProduct ==
    (/\ call.op = "multiplyMatrices"
     /\ NonEmptyRect(matrixA)
     /\ NonEmptyRect(matrixB)
     /\ Len(matrixA[1]) = Len(matrixB))
    => (/\ status = "ok"
        /\ ~oob
        /\ Len(ret) = 1
        /\ Len(ret[1]) = Len(matrixA)
        /\ \A i \in 1..Len(matrixA) : Len(ret[1][i]) = Len(matrixB[1])
        /\ ret[1] = MatrixProduct(matrixA, matrixB))

\* a non-square product with three terms per element, not all zero
C2_Witness ==
    /\ call.op = "multiplyMatrices"
    /\ status = "ok"
    /\ Len(matrixA) = 2
    /\ Len(matrixB) = 3
    /\ Len(matrixA[1]) = 3
    /\ Len(matrixB[1]) = 1
    /\ ret = <<MatrixProduct(matrixA, matrixB)>>
    /\ ret[1][2][1] # 0

\* C6: when the heights differ, or the widths of the first rows differ, or A
\* is empty, addMatrices throws before it computes anything: it returns no
\* matrix, reads nothing out of range, and leaves A and B as they were.
C6_AddMismatchThrows ==
    [][(/\ call'.op = "addMatrices"
        /\ \/ Len(matrixA) = 0
           \/ Len(matrixA) # Len(matrixB)
           \/ Len(matrixA[1]) # Len(matrixB[1]))
       => (/\ status' = "runtime_error"
           /\ ret' = <<>>
           /\ ~oob'
           /\ matrixA' = matrixA
           /\ matrixB' = matrixB)]_vars

\* equal heights, different widths: the call threw and returned nothing
C6_Witness ==
    /\ call.op = "addMatrices"
    /\ Len(matrixA) = 2
    /\ Len(matrixB) = 2
    /\ Len(matrixA[1]) = 2
    /\ Len(matrixB[1]) = 3
    /\ status = "runtime_error"
    /\ ret = <<>>

\* C7: when A is empty or the width of A's first row differs from B's
\* height, multiplyMatrices throws before it computes anything and returns
\* no matrix.
C7_MultiplyMismatchThrows ==
    (/\ call.op = "multiplyMatrices"
     /\ \/ Len(matrixA) = 0
        \/ Len(matrixA[1]) # Len(matrixB))
    => (/\ status = "runtime_error"
        /\ ret = <<>>
        /\ ~oob)

\* A is 2 x 3 and B has two rows: the call threw and returned nothing
C7_Witness ==
    /\ call.op = "multiplyMatrices"
    /\ Len(matrixA) = 2
    /\ Len(matrixA[1]) = 3
    /\ Len(matrixB) = 2
    /\ status = "runtime_error"
    /\ ret = <<>>

\* C8: for a non-empty square M, sumDiagonals reports the exact sums of
\* M[i][i] and of M[i][n-1-i], writes no diagnostic, and leaves M as it was.
C8_DiagonalSums ==
    [][(/\ call'.op = "sumDiagonals"
        /\ NonEmptyRect(matrixA)
        /\ Len(matrixA) = Len(matrixA[1]))
       => (/\ sums' = <<[main |-> MainDiagonal(matrixA),
                         secondary |-> SecondaryDiagonal(matrixA)]>>
           /\ cerr' = <<>>
           /\ matrixA' = matrixA)]_vars

\* n = 3: the centre M[1][1] is in both sums, and the two sums differ
C8_Witness ==
    /\ call.op = "sumDiagonals"
    /\ Len(matrixA) = 3
    /\ Len(matrixA[1]) = 3
    /\ Len(sums) = 1
    /\ sums[1].main = matrixA[1][1] + matrixA[2][2] + matrixA[3][3]
    /\ sums[1].secondary = matrixA[1][3] + matrixA[2][2] + matrixA[3][1]
    /\ sums[1].main # sums[1].secondary
    /\ matrixA[2][2] # 0

\* C9: with a non-empty A and a B that has no rows, multiplyMatrices never
\* reads B's first row: it throws, or returns without such an access.
C9_MultiplyGuardsEmptyB ==
    (/\ call.op = "multiplyMatrices"
     /\ Len(matrixA) >= 1
     /\ Len(matrixB) = 0)
    => (/\ ~oob
        /\ status \in {"runtime_error", "ok"})

(***************************************************************************)
(* Claims about swapRows, swapCols and updateElement (SpecMut).            *)
(***************************************************************************)
\* the last mutator call with the matrix it began on
Last == history[Len(history)]

\* the number of columns the claims speak of: none for a matrix without rows
Columns(M) == IF Len(M) = 0 THEN 0 ELSE Len(M[1])

\* whether the 0-based indices of the call c miss the matrix M
OutOfRangeCall(c, M) ==
    \/ /\ c.op = "swapRows"
       /\ \/ c.a \notin 0..(Len(M) - 1)
          \/ c.b \notin 0..(Len(M) - 1)
    \/ /\ c.op = "swapCols"
       /\ \/ c.a \notin 0..(Columns(M) - 1)
          \/ c.b \notin 0..(Columns(M) - 1)
    \/ /\ c.op = "updateElement"
       /\ \/ c.a \notin 0..(Len(M) - 1)
          \/ c.b \notin 0..(Columns(M) - 1)

\* C3: a mutator call with an index out of range, negative ones included,
\* writes a diagnostic and leaves the matrix exactly as it was.
C3_OutOfRangeIsNoOp ==
    (/\ Len(history) >= 1
     /\ OutOfRangeCall(Last.call, Last.before))
    => (/\ Len(cerr) = 1
        /\ matrix = Last.before)

\* swapRows with two equal indices, both past the last row of a matrix that
\* has rows, was reported and changed nothing
C3_Witness ==
    /\ Len(history) >= 1
    /\ Last.call.op = "swapRows"
    /\ Len(Last.before) >= 1
    /\ Last.call.a = Len(Last.before)
    /\ Last.call.b = Last.call.a
    /\ Len(cerr) = 1
    /\ matrix = Last.before

\* C4: on a non-empty rectangular matrix, updateElement with (r, c) in range
\* makes M[r][c] the new value and keeps every other element and the shape.
C4_UpdateSetsOneElement ==
    (/\ Len(history) >= 1
     /\ Last.call.op = "updateElement"
     /\ NonEmptyRect(Last.before)
     /\ ~OutOfRangeCall(Last.call, Last.before))
    => (/\ SameShape(matrix, Last.before)
        /\ \A i \in 1..Len(matrix) : \A j \in 1..Len(matrix[i]) :
              matrix[i][j] = IF i = Last.call.a + 1 /\ j = Last.call.b + 1
                             THEN Last.call.v
                             ELSE Last.before[i][j]
        /\ cerr = <<>>)

\* element (1, 0) of a 2 x 2 matrix, which was not 0, now holds the value
C4_Witness ==
    /\ Len(history) >= 1
    /\ Last.call.op = "updateElement"
    /\ Len(Last.before) = 2
    /\ Len(Last.before[1]) = 2
    /\ Last.call.a = 1
    /\ Last.call.b = 0
    /\ Last.before[2][1] # 0
    /\ matrix[2][1] = Last.call.v
    /\ matrix # Last.before

IsSwap(c) == c.op \in {"swapRows", "swapCols"}

\* C5: on a non-empty rectangular matrix and with indices in range, a swap of
\* a row or column with itself changes nothing, and swapRows(i, j) followed
\* by swapRows(j, i), or swapCols(i, j) by swapCols(j, i), restores the
\* matrix.
C5_SwapInvolution ==
    /\ (/\ Len(history) >= 1
        /\ IsSwap(Last.call)
        /\ NonEmptyRect(Last.before)
        /\ ~OutOfRangeCall(Last.call, Last.before)
        /\ Last.call.a = Last.call.b)
       => matrix = Last.before
    /\ (/\ Len(history) = 2
        /\ IsSwap(history[1].call)
        /\ NonEmptyRect(history[1].before)
        /\ ~OutOfRangeCall(history[1].call, history[1].before)
        /\ history[2].call.op = history[1].call.op
        /\ history[2].call.a = history[1].call.b
        /\ history[2].call.b = history[1].call.a)
       => matrix = history[1].before

\* two rows were exchanged, which changed the matrix, and exchanged back
C5_Witness ==
    /\ Len(history) = 2
    /\ history[1].call.op = "swapRows"
    /\ history[2].call.op = "swapRows"
    /\ history[1].call.a # history[1].call.b
    /\ history[2].call.a = history[1].call.b
    /\ history[2].call.b = history[1].call.a
    /\ history[2].before # history[1].before
    /\ matrix = history[1].before

(***************************************************************************)
(* Claim about main() (FairSpecMain).                                      *)
(***************************************************************************)
\* a line with this text was written to std::cerr
Reported(text) == \E k \in 1..Len(cerr) : cerr[k].msg = text

\* the run is past the successful load
Loaded == pc \notin {"load"} /\ exitCode # <<1>>

\* what holds of every state of a run whose load succeeded
C10_StateOk ==
    Loaded =>
       /\ pc # "terminated"
       /\ Len(matrixA) = n
       /\ Len(matrixB) = n
       /\ pc = "done" => exitCode = <<0>>
       /\ (matrixA_copy_rows # <<>> /\ n <= 1)
          => (/\ matrixA_copy_rows = <<matrixA>>
              /\ Reported("Error: Row index out of bounds"))
       /\ (matrixB_copy_cols # <<>> /\ n <= 2)
          => (/\ matrixB_copy_cols = <<matrixB>>
              /\ Reported("Error: Column index out of bounds"))
       /\ (matrixA_copy_update # <<>> /\ n <= 2)
          => (/\ matrixA_copy_update = <<matrixA>>
              /\ Reported("Error: Index out of bounds"))

\* C10: after a successful load of two N x N matrices, N >= 1, the run of
\* main() never ends in an uncaught exception and reaches return 0; a step
\* whose fixed index is out of range for N writes a diagnostic and leaves its
\* copy equal to the original; and no step changes matrixA or matrixB.
C10_ReferenceRun ==
    /\ []C10_StateOk
    /\ [][Loaded => (matrixA' = matrixA /\ matrixB' = matrixB)]_vars
    /\ (pc = "add") ~> (pc = "done" /\ exitCode = <<0>>)

\* N = 2 ran to return 0: the row swap changed its copy, the column swap and
\* the update were out of range and left theirs alone
C10_Witness ==
    /\ pc = "done"
    /\ exitCode = <<0>>
    /\ n = 2
    /\ matrixA_copy_rows # <<matrixA>>
    /\ matrixA_copy_rows = <<<<matrixA[2], matrixA[1]>>>>
    /\ matrixB_copy_cols = <<matrixB>>
    /\ matrixA_copy_update = <<matrixA>>
    /\ Len(cerr) = 2

====
